---- MODULE Spec2Model ----
(***************************************************************************)
(* A model of the Python binding of the psdparse library                    *)
(* (src/src/bindings.cpp): one PythonPSD handle, its load operations and    *)
(* its accessors.  The handle is the record psd; every public method is an  *)
(* operator from the handle (and the call's arguments) to the handle after  *)
(* the call and the value returned or the error thrown.                     *)
(*                                                                          *)
(* The base class psd::PSDFile (the psdparse library: the parser, the       *)
(* decompressor, clearData, load, processParsed, getLayerImage,             *)
(* getMergedImage) is not part of the binding's source; the operators that  *)
(* stand for it are written from the specification and say so.              *)
(***************************************************************************)
EXTENDS Integers, Sequences, FiniteSets, TLC

VARIABLES
    psd,    \* the PythonPSD object: the fields of psd::PSDFile and fileData
    op,     \* the name of the last public method called ("new" after construction)
    arg,    \* the arguments of that call
    ret,    \* what that call returned: [err |-> "" or the message thrown, val |-> the value]
    edited, \* history: assignAutoIds has changed a layer id since the last load
    before  \* history: the handle before the last call: "empty", "loaded" or "edited"

vars == <<psd, op, arg, ret, edited, before>>

----------------------------------------------------------------------------
(* Bounds of the model *)

\* the longest layer list of an input document
MaxLayers == 3
\* the largest width or height of a canvas, a layer or a mask
MaxDim == 2
\* the longest guide list of an input document
MaxGuides == 2

\* layer ids the input documents use; -1 is "unassigned"
LayerIdSet == {-1, 2, 5}
\* the baseId arguments tried with assignAutoIds
BaseIdSet == {-3, 0, 7}
\* the layerNo arguments tried with the per-layer accessors
LayerNoSet == -1 .. MaxLayers
\* the mode arguments tried with getLayerData ("maskedimage" is the default)
ModeSet == {"raw", "mask", "maskedimage"}
\* default colors of a layer mask
DefaultColorSet == {0, 255}

SeqsUpTo(S, n) == UNION {[1..k -> S] : k \in 0..n}

----------------------------------------------------------------------------
(* The blend modes, in the order of the BlendMode enum binding.  The raw    *)
(* numeric code of a mode is the value of the library's enum, which the     *)
(* binding passes through; here it is the mode's position in this list.     *)
BlendModeEnum ==
    << "NORMAL", "DARKEN", "MULTIPLY", "COLOR_BURN", "LINEAR_BURN", "LIGHTEN",
       "SCREEN", "COLOR_DODGE", "LINEAR_DODGE", "OVERLAY", "SOFT_LIGHT",
       "HARD_LIGHT", "VIVID_LIGHT", "LINEAR_LIGHT", "PIN_LIGHT", "HARD_MIX",
       "DIFFERENCE", "EXCLUSION", "DISSOLVE", "DARKER_COLOR", "LIGHTER_COLOR",
       "SUBTRACT", "DIVIDE" >>

BlendModes == {BlendModeEnum[i] : i \in 1..Len(BlendModeEnum)}

\* static_cast<int>(lay.blendMode)
BlendModeCode(mode) == (CHOOSE i \in 1..Len(BlendModeEnum) : BlendModeEnum[i] = mode) - 1

\* the lambda convBlendModeToString of getLayerInfo
convBlendModeToString(mode) ==
    CASE mode = "NORMAL"       -> "normal"
      [] mode = "DARKEN"       -> "darken"
      [] mode = "MULTIPLY"     -> "multiply"
      [] mode = "COLOR_BURN"   -> "color_burn"
      [] mode = "LINEAR_BURN"  -> "linear_burn"
      [] mode = "LIGHTEN"      -> "lighten"
      [] mode = "SCREEN"       -> "screen"
      [] mode = "COLOR_DODGE"  -> "color_dodge"
      [] mode = "LINEAR_DODGE" -> "linear_dodge"
      [] mode = "OVERLAY"      -> "overlay"
      [] mode = "SOFT_LIGHT"   -> "soft_light"
      [] mode = "HARD_LIGHT"   -> "hard_light"
      [] mode = "DIFFERENCE"   -> "difference"
      [] mode = "EXCLUSION"    -> "exclusion"
      [] OTHER                 -> "normal"

----------------------------------------------------------------------------
(* Input documents.  An input is what a byte buffer or a file holds: the    *)
(* document it encodes and how the encoding is damaged, if it is.           *)

NoMask == [left |-> 0, top |-> 0, width |-> 0, height |-> 0, defaultColor |-> 0]

\* a layer record as the parser leaves it in layerList
Layer(id, blend, w, h, mask) ==
    [ layerId          |-> id,
      layerType        |-> 0,
      layerName        |-> "layer",
      layerNameUnicode |-> IF blend = "NORMAL" THEN "" ELSE "unicode",
      left             |-> 0,
      top              |-> 0,
      width            |-> w,
      height           |-> h,
      opacity          |-> 255,
      blendMode        |-> blend,
      clipping         |-> 0,
      hasMaskChannel   |-> mask.width > 0 /\ mask.height > 0,
      layerMask        |-> mask,
      image            |-> <<id % 256, 20, 255, 255>> ]

NoHeader == [width |-> 0, height |-> 0, channels |-> 0, depth |-> 0, mode |-> 0]
Header(w, h) == [width |-> w, height |-> h, channels |-> 3, depth |-> 8, mode |-> 3]

NoSlice == [isEnabled |-> FALSE, groupName |-> "", slices |-> <<>>]
NoGridGuide == [isEnabled |-> FALSE, horizontalGrid |-> 0, verticalGrid |-> 0, guides |-> <<>>]

\* a document: what a well-formed input encodes.  hasSlice, hasGuide: the
\* resource block is in the file; hasImage: the merged image block is.
Doc(hdr, layers, hasImage, hasSlice, hasGuide, guides, comps) ==
    [ header |-> hdr, layers |-> layers, hasImage |-> hasImage,
      hasSlice |-> hasSlice, hasGuide |-> hasGuide, guides |-> guides,
      comps |-> comps ]

PlainLayer(id) == Layer(id, "NORMAL", 1, 1, NoMask)
PlainDoc(layers) == Doc(Header(1, 1), layers, TRUE, FALSE, FALSE, <<>>, <<>>)

\* documents that differ in their layer ids
IdDocs ==
    { PlainDoc([i \in 1..Len(ids) |-> PlainLayer(ids[i])]) : ids \in SeqsUpTo(LayerIdSet, MaxLayers) }

\* one document per blend mode
BlendDocs == { PlainDoc(<< Layer(5, m, 1, 1, NoMask) >>) : m \in BlendModes }

\* documents that differ in the size of their layer, without a mask sub-record
LayerDimDocs ==
    { PlainDoc(<< Layer(5, "NORMAL", w, h, [NoMask EXCEPT !.defaultColor = dc]) >>) :
        w \in 0..MaxDim, h \in 0..MaxDim, dc \in DefaultColorSet }

\* documents that differ in the mask of their layer
MaskDocs ==
    { PlainDoc(<< Layer(5, "NORMAL", lw, lw,
                        [left |-> 0, top |-> 0, width |-> mw, height |-> mh, defaultColor |-> dc]) >>) :
        lw \in {1}, mw \in -1..MaxDim, mh \in -1..MaxDim, dc \in DefaultColorSet }

\* documents that differ in their canvas and in the merged image block
CanvasDocs ==
    { Doc(Header(w, h), <<>>, img, FALSE, FALSE, <<>>, <<>>) :
        w \in 0..MaxDim, h \in 0..MaxDim, img \in BOOLEAN }

\* the direction bytes of the guides of the input documents: 0 is vertical
GuideDirectionSet == {0, 1, 2}

Guide(i, d) == [location |-> 10 * i, direction |-> d]
GuideLists == { [i \in 1..Len(ds) |-> Guide(i, ds[i])] : ds \in SeqsUpTo(GuideDirectionSet, MaxGuides) }
Comp(i) == [id |-> i, name |-> "comp"]

\* documents that differ in their resource blocks
ResourceDocs ==
    { Doc(Header(1, 1), << PlainLayer(5) >>, TRUE, s, TRUE, g, IF s THEN << Comp(1) >> ELSE <<>>) :
        s \in BOOLEAN, g \in GuideLists }
    \cup { Doc(Header(1, 1), << PlainLayer(5) >>, TRUE, s, FALSE, <<>>, c) :
              s \in BOOLEAN, c \in {<<>>, << Comp(1), Comp(2) >>} }

Docs == IdDocs \cup BlendDocs \cup LayerDimDocs \cup MaskDocs \cup CanvasDocs \cup ResourceDocs

\* how an input can be damaged: a wrong magic signature, a layer section cut
\* short, bytes after the end of the document, unbalanced folder markers
Damages == {"signature", "truncated", "trailing", "unbalanced"}

Input(doc, damage) == [doc |-> doc, damage |-> damage]

\* the documents whose damaged encodings are tried
DamagedDocs ==
    { Doc(Header(2, 1), << PlainLayer(-1), PlainLayer(5) >>, TRUE, TRUE, TRUE, << Guide(1, 0) >>, << Comp(1) >>),
      PlainDoc(<<>>) }

Inputs == { Input(d, "none") : d \in Docs } \cup { Input(d, x) : d \in DamagedDocs, x \in Damages }

\* the file system: what loadFromFile finds at a path ("" : no such file)
Paths == {"ids.psd", "layers.psd", "canvas.psd", "broken.psd", "trailing.psd", "missing.psd"}
FileAt(path) ==
    CASE path = "ids.psd"      -> << Input(PlainDoc(<< PlainLayer(-1), PlainLayer(5), PlainLayer(-1) >>), "none") >>
      [] path = "layers.psd"   -> << Input(Doc(Header(2, 1), << PlainLayer(-1), PlainLayer(5) >>, TRUE, TRUE, TRUE,
                                               << Guide(1, 0) >>, << Comp(1) >>), "none") >>
      [] path = "canvas.psd"   -> << Input(Doc(Header(1, 2), <<>>, FALSE, FALSE, FALSE, <<>>, <<>>), "none") >>
      [] path = "broken.psd"   -> << Input(Doc(Header(2, 1), << PlainLayer(-1), PlainLayer(5) >>, TRUE, TRUE, TRUE,
                                               << Guide(1, 0) >>, << Comp(1) >>), "truncated") >>
      [] path = "trailing.psd" -> << Input(PlainDoc(<<>>), "trailing") >>
      [] OTHER                 -> << >>

----------------------------------------------------------------------------
(* The object *)

\* PythonPSD(): nothing loaded, every container empty
NewPSD ==
    [ isLoaded          |-> FALSE,
      header            |-> NoHeader,
      layerList         |-> <<>>,
      imageData         |-> FALSE,
      slice             |-> NoSlice,
      gridGuide         |-> NoGridGuide,
      layerComps        |-> <<>>,
      lastAppliedCompId |-> 0,
      fileData          |-> <<>> ]

\* a returned value, a thrown std::runtime_error.  A value is a record: a dict
\* or an array as it is, a number, a string or a bool as Scalar, None as None.
Return(v) == [err |-> "", val |-> v]
Throw(msg) == [err |-> msg, val |-> <<>>]
Scalar(v) == [value |-> v]
None == [none |-> TRUE]

----------------------------------------------------------------------------
(* The psdparse library, from the specification *)

\* psd::PSDFile::clearData: the document model is discarded in full; the
\* base class does not know fileData
PSDFile_clearData(s) == [NewPSD EXCEPT !.fileData = s.fileData]

\* parse(begin, end, parser): the decoders populate the object in the order
\* header, resource blocks, layer records, merged image.  Each writes what the
\* input holds: a resource block that is absent leaves its field alone, layer
\* records are appended to layerList.  r is the parser's verdict, atEnd whether
\* begin reached end.
parse(s, bytes) ==
    LET d == bytes.doc
        withHeader == [s EXCEPT !.header = d.header]
        withResources ==
            [withHeader EXCEPT
                !.slice = IF d.hasSlice
                          THEN [isEnabled |-> TRUE, groupName |-> "group",
                                slices |-> << [id |-> 1, left |-> 0, top |-> 0, right |-> d.header.width,
                                               bottom |-> d.header.height, name |-> "slice"] >>]
                          ELSE @,
                !.gridGuide = IF d.hasGuide
                              THEN [isEnabled |-> TRUE, horizontalGrid |-> 576, verticalGrid |-> 576,
                                    guides |-> d.guides]
                              ELSE @,
                !.layerComps = @ \o d.comps,
                !.lastAppliedCompId = IF d.comps = <<>> THEN @ ELSE d.comps[Len(d.comps)].id]
        withLayers == [withResources EXCEPT !.layerList = @ \o d.layers]
        withSomeLayers == [withResources EXCEPT !.layerList = @ \o (IF d.layers = <<>> THEN <<>> ELSE << d.layers[1] >>)]
        whole == [withLayers EXCEPT !.imageData = IF d.hasImage THEN TRUE ELSE @]
    IN  CASE bytes.damage = "signature" -> [obj |-> s, r |-> FALSE, atEnd |-> FALSE]
          [] bytes.damage = "truncated" -> [obj |-> withSomeLayers, r |-> FALSE, atEnd |-> FALSE]
          [] bytes.damage = "trailing"  -> [obj |-> whole, r |-> TRUE, atEnd |-> FALSE]
          [] OTHER                      -> [obj |-> whole, r |-> TRUE, atEnd |-> TRUE]

\* processParsed(): the second pass, which rebuilds the folder nesting; it
\* fails on unbalanced folder markers
processParsed(s, bytes) == [obj |-> s, ok |-> bytes.damage # "unbalanced"]

\* psd::PSDFile::load(filename): the same load over the bytes of a file
PSDFile_load(s, path) ==
    LET s1 == PSDFile_clearData(s)
    IN  IF FileAt(path) = <<>>
        THEN [obj |-> s1, ret |-> FALSE]
        ELSE LET bytes == FileAt(path)[1]
                 p == parse(s1, bytes)
                 s2 == IF p.r /\ p.atEnd
                       THEN LET q == processParsed(p.obj, bytes) IN [q.obj EXCEPT !.isLoaded = q.ok]
                       ELSE p.obj
                 s3 == IF ~s2.isLoaded THEN PSDFile_clearData(s2) ELSE s2
             IN  [obj |-> s3, ret |-> s3.isLoaded]

----------------------------------------------------------------------------
(* PythonPSD: loading *)

\* (a slip) clearData that forgets the base class
clearData_bytesOnly(s) == [s EXCEPT !.fileData = <<>>]

\* PythonPSD::clearData
clearData(s) == [PSDFile_clearData(s) EXCEPT !.fileData = <<>>]

\* PythonPSD::loadFromFile
loadFromFile(s, filepath) ==
    LET c == PSDFile_load(clearData(s), filepath)
    IN  [obj |-> c.obj, ret |-> Return(Scalar(c.ret))]

\* (a slip) loadFromBytes without the clearData() it starts with
loadFromBytes_noClear(s, bytes) ==
    LET s2 == [s EXCEPT !.fileData = << bytes >>]
        p  == parse(s2, bytes)
        s3 == IF p.r /\ p.atEnd
              THEN LET q == processParsed(p.obj, bytes) IN [q.obj EXCEPT !.isLoaded = q.ok]
              ELSE p.obj
        s4 == IF ~s3.isLoaded THEN clearData(s3) ELSE s3
    IN  [obj |-> s4, ret |-> Return(Scalar(s4.isLoaded))]

\* (a slip) loadFromBytes without the clearData() of a failed load
loadFromBytes_noCleanup(s, bytes) ==
    LET s1 == clearData(s)
        s2 == [s1 EXCEPT !.fileData = << bytes >>]
        p  == parse(s2, bytes)
        s3 == IF p.r /\ p.atEnd
              THEN LET q == processParsed(p.obj, bytes) IN [q.obj EXCEPT !.isLoaded = q.ok]
              ELSE p.obj
    IN  [obj |-> s3, ret |-> Return(Scalar(s3.isLoaded))]

\* (a slip) loadFromBytes without the test begin == end
loadFromBytes_ignoresRest(s, bytes) ==
    LET s1 == clearData(s)
        s2 == [s1 EXCEPT !.fileData = << bytes >>]
        p  == parse(s2, bytes)
        s3 == IF p.r
              THEN LET q == processParsed(p.obj, bytes) IN [q.obj EXCEPT !.isLoaded = q.ok]
              ELSE p.obj
        s4 == IF ~s3.isLoaded THEN clearData(s3) ELSE s3
    IN  [obj |-> s4, ret |-> Return(Scalar(s4.isLoaded))]

\* PythonPSD::loadFromBytes
loadFromBytes(s, bytes) ==
    LET s1 == clearData(s)
        s2 == [s1 EXCEPT !.fileData = << bytes >>]
        p  == parse(s2, bytes)
        s3 == IF p.r /\ p.atEnd
              THEN LET q == processParsed(p.obj, bytes) IN [q.obj EXCEPT !.isLoaded = q.ok]
              ELSE p.obj
        s4 == IF ~s3.isLoaded THEN clearData(s3) ELSE s3
    IN  [obj |-> s4, ret |-> Return(Scalar(s4.isLoaded))]

----------------------------------------------------------------------------
(* PythonPSD: accessors *)

InvalidLayer == "Invalid layer number or no PSD data loaded"
NotLoaded == "No PSD data loaded"
ZeroSize == "Layer has zero width or height"
NoComposite == "No composite image data available in the PSD file"

\* (a slip) the guard with > for >=
BadLayerNo_offByOne(s, layerNo) == ~s.isLoaded \/ layerNo < 0 \/ layerNo > Len(s.layerList)

\* the guard shared by the per-layer accessors
BadLayerNo(s, layerNo) == ~s.isLoaded \/ layerNo < 0 \/ layerNo >= Len(s.layerList)

\* what a read past the end of layerList finds: some layer record
StrayLayer == Layer(0, "NORMAL", 1, 1, NoMask)

\* layerList[layerNo]: C++ indexes from 0, and does not check the index
LayerAt(s, layerNo) ==
    IF layerNo >= 0 /\ layerNo < Len(s.layerList) THEN s.layerList[layerNo + 1] ELSE StrayLayer

\* PythonPSD::getBasicInfo: an empty dict when nothing is loaded
getBasicInfo(s) ==
    IF ~s.isLoaded
    THEN [obj |-> s, ret |-> Return(<<>>)]
    ELSE [obj |-> s,
          ret |-> Return([width |-> s.header.width, height |-> s.header.height,
                          channels |-> s.header.channels, depth |-> s.header.depth,
                          color_mode |-> s.header.mode, layer_count |-> Len(s.layerList)])]

\* PythonPSD::getLayerType
getLayerType(s, layerNo) ==
    IF BadLayerNo(s, layerNo)
    THEN [obj |-> s, ret |-> Throw(InvalidLayer)]
    ELSE [obj |-> s, ret |-> Return(Scalar(LayerAt(s, layerNo).layerType))]

\* PythonPSD::getLayerName: the Unicode name when there is one
getLayerName(s, layerNo) ==
    IF BadLayerNo(s, layerNo)
    THEN [obj |-> s, ret |-> Throw(InvalidLayer)]
    ELSE LET lay == LayerAt(s, layerNo)
         IN  [obj |-> s,
              ret |-> Return(Scalar(IF lay.layerNameUnicode # "" THEN lay.layerNameUnicode
                                                                      ELSE lay.layerName))]

\* PythonPSD::getLayerInfo (the parent group and the layer comp membership,
\* which the model's layers do not have, are left out of the dict)
getLayerInfo(s, layerNo) ==
    IF BadLayerNo(s, layerNo)
    THEN [obj |-> s, ret |-> Throw(InvalidLayer)]
    ELSE LET lay == LayerAt(s, layerNo)
         IN  [obj |-> s,
              ret |-> Return([left |-> lay.left, top |-> lay.top,
                              width |-> lay.width, height |-> lay.height,
                              opacity |-> lay.opacity,
                              mask |-> lay.hasMaskChannel,
                              type |-> convBlendModeToString(lay.blendMode),
                              layer_type |-> lay.layerType,
                              blend_mode |-> BlendModeCode(lay.blendMode),
                              name |-> getLayerName(s, layerNo).ret.val.value,
                              clipping |-> lay.clipping,
                              layer_id |-> lay.layerId])]

\* getLayerImage(lay, buffer, BGRA_LE, pitch, mode), from the specification:
\* the pitch * height bytes it writes.  raw: the layer's pixels; mask: the mask
\* bitmap; masked image: the pixels with their alpha scaled by the mask.  The
\* first byte of a pixel depends on the pixel's place, so that rows and
\* columns are told apart.
getLayerImage(lay, pitch, height, imageMode) ==
    LET coverage == 128
        pixel == CASE imageMode = "IMAGE_MODE_IMAGE" -> lay.image
                   [] imageMode = "IMAGE_MODE_MASK"  -> <<coverage, coverage, coverage, 255>>
                   [] OTHER -> IF lay.hasMaskChannel
                               THEN [lay.image EXCEPT ![4] = (@ * coverage) \div 255]
                               ELSE lay.image
    IN  [k \in 1..(pitch * height) |->
            IF (k - 1) % 4 = 0 THEN (pixel[1] + ((k - 1) \div 4)) % 256 ELSE pixel[((k - 1) % 4) + 1]]

\* the loop that copies the buffer into the NumPy array: element (y, x, c) of
\* the array, kept row-major, is buffer[y * pitch + x * 4 + c]
CopyToArray(buffer, height, width, pitch) ==
    [ shape |-> <<height, width, 4>>,
      data  |-> [k \in 1..(height * width * 4) |->
                    LET y == (k - 1) \div (width * 4)
                        x == ((k - 1) % (width * 4)) \div 4
                        c == (k - 1) % 4
                    IN  buffer[y * pitch + x * 4 + c + 1]] ]

\* (a slip) the placeholder left black
DummyMask_black(mask) == [shape |-> <<1, 1, 4>>, data |-> <<0, 0, 0, 255>>]

\* the placeholder getLayerData returns for a mask without area: one pixel of
\* the mask's default color, opaque
DummyMask(mask) ==
    [ shape |-> <<1, 1, 4>>,
      data  |-> << mask.defaultColor, mask.defaultColor, mask.defaultColor, 255 >> ]

\* PythonPSD::getLayerData: what it returns or throws
LayerDataResult(s, layerNo, mode) ==
    IF BadLayerNo(s, layerNo)
    THEN Throw(InvalidLayer)
    ELSE LET lay == LayerAt(s, layerNo)
             mask == lay.layerMask
             imageMode == CASE mode = "mask" -> "IMAGE_MODE_MASK"
                            [] mode = "raw"  -> "IMAGE_MODE_IMAGE"
                            [] OTHER         -> "IMAGE_MODE_MASKEDIMAGE"
             width == IF mode = "mask" THEN mask.width ELSE lay.width
             height == IF mode = "mask" THEN mask.height ELSE lay.height
             pitch == width * 4
         IN  IF mode = "mask" /\ (width <= 0 \/ height <= 0)
             THEN Return(DummyMask(mask))
             ELSE IF width <= 0 \/ height <= 0
             THEN Throw(ZeroSize)
             ELSE Return(CopyToArray(getLayerImage(lay, pitch, height, imageMode),
                                     height, width, pitch))

\* (a slip) the placeholder's size written into the layer's mask
getLayerData_writesMask(s, layerNo, mode) ==
    LET r == LayerDataResult(s, layerNo, mode)
    IN  IF mode = "mask" /\ r.err = "" /\ r.val.shape = <<1, 1, 4>>
        THEN [obj |-> [s EXCEPT !.layerList[layerNo + 1].layerMask.width = 1,
                                !.layerList[layerNo + 1].layerMask.height = 1],
              ret |-> r]
        ELSE [obj |-> s, ret |-> r]

\* (a slip) the layer's pixels moved out of the layer by the first request
getLayerData_consumes(s, layerNo, mode) ==
    LET r == LayerDataResult(s, layerNo, mode)
    IN  IF mode = "raw" /\ r.err = ""
        THEN [obj |-> [s EXCEPT !.layerList[layerNo + 1].image = <<0, 0, 0, 0>>], ret |-> r]
        ELSE [obj |-> s, ret |-> r]

\* PythonPSD::getLayerData: the handle is left as it was
getLayerData(s, layerNo, mode) == [obj |-> s, ret |-> LayerDataResult(s, layerNo, mode)]

\* getMergedImage(buffer, BGRA_LE, pitch), from the specification: the
\* file's merged image at header dimensions
getMergedImage(s, pitch) ==
    [k \in 1..(pitch * s.header.height) |->
        IF (k - 1) % 4 = 0 THEN ((k - 1) \div 4) % 256 ELSE 255]

\* (a slip) getBlend with the array's height and width exchanged
getBlend_transposed(s) ==
    IF ~s.isLoaded
    THEN [obj |-> s, ret |-> Throw(NotLoaded)]
    ELSE IF ~s.imageData
    THEN [obj |-> s, ret |-> Throw(NoComposite)]
    ELSE LET width == s.header.width
             height == s.header.height
             pitch == width * 4
         IN  [obj |-> s,
              ret |-> Return([CopyToArray(getMergedImage(s, pitch), height, width, pitch)
                                EXCEPT !.shape = <<width, height, 4>>])]

\* PythonPSD::getBlend
getBlend(s) ==
    IF ~s.isLoaded
    THEN [obj |-> s, ret |-> Throw(NotLoaded)]
    ELSE IF ~s.imageData
    THEN [obj |-> s, ret |-> Throw(NoComposite)]
    ELSE LET width == s.header.width
             height == s.header.height
             pitch == width * 4
         IN  [obj |-> s,
              ret |-> Return(CopyToArray(getMergedImage(s, pitch), height, width, pitch))]

\* PythonPSD::getSlices
getSlices(s) ==
    IF ~s.isLoaded
    THEN [obj |-> s, ret |-> Throw(NotLoaded)]
    ELSE IF ~s.slice.isEnabled
    THEN [obj |-> s, ret |-> Return(None)]
    ELSE [obj |-> s, ret |-> Return([name |-> s.slice.groupName, slices |-> s.slice.slices])]

\* (a slip) the loop of getGuides with the test for the direction inverted
RECURSIVE GuideLocations_inverted(_, _)
GuideLocations_inverted(guides, vertical) ==
    IF guides = <<>>
    THEN <<>>
    ELSE LET guide == Head(guides)
         IN  (IF (guide.direction # 0) = vertical THEN << guide.location >> ELSE <<>>)
             \o GuideLocations_inverted(Tail(guides), vertical)

\* the loop of getGuides: the locations of the guides of one kind, in order
RECURSIVE GuideLocations(_, _)
GuideLocations(guides, vertical) ==
    IF guides = <<>>
    THEN <<>>
    ELSE LET guide == Head(guides)
         IN  (IF (guide.direction = 0) = vertical THEN << guide.location >> ELSE <<>>)
             \o GuideLocations(Tail(guides), vertical)

\* PythonPSD::getGuides
getGuides(s) ==
    IF ~s.isLoaded
    THEN [obj |-> s, ret |-> Throw(NotLoaded)]
    ELSE IF ~s.gridGuide.isEnabled
    THEN [obj |-> s, ret |-> Return(None)]
    ELSE [obj |-> s,
          ret |-> Return([horz_grid |-> s.gridGuide.horizontalGrid,
                          vert_grid |-> s.gridGuide.verticalGrid,
                          vertical |-> GuideLocations(s.gridGuide.guides, TRUE),
                          horizontal |-> GuideLocations(s.gridGuide.guides, FALSE)])]

\* PythonPSD::getLayerComp
getLayerComp(s) ==
    IF ~s.isLoaded
    THEN [obj |-> s, ret |-> Throw(NotLoaded)]
    ELSE IF s.layerComps = <<>>
    THEN [obj |-> s, ret |-> Return(None)]
    ELSE [obj |-> s,
          ret |-> Return([last_applied_id |-> s.lastAppliedCompId, comps |-> s.layerComps])]

\* the first loop of assignAutoIds: the largest layer id, or -1
RECURSIVE MaxLayerId(_, _)
MaxLayerId(layers, minId) ==
    IF layers = <<>>
    THEN minId
    ELSE MaxLayerId(Tail(layers), IF minId < Head(layers).layerId THEN Head(layers).layerId ELSE minId)

\* the largest and the smallest int (32 bits)
INT_MAX == 2147483647
INT_MIN == -INT_MAX - 1

\* ++baseId at INT_MAX is a signed overflow, which is undefined: what a build
\* makes of it.  "wrap": the value wraps to INT_MIN; "trap": the process is
\* aborted (a build that traps on overflow).
Overflows == {"wrap", "trap"}
SignedOverflow == "signed integer overflow"

\* (a slip) the second loop with baseId++ for ++baseId
RECURSIVE AssignLoop_postIncrement(_, _, _, _, _)
AssignLoop_postIncrement(layers, i, baseId, assigned, ub) ==
    IF i > Len(layers)
    THEN [layers |-> layers, assigned |-> assigned, trapped |-> FALSE]
    ELSE IF layers[i].layerId = -1
    THEN IF baseId = INT_MAX /\ ub = "trap"
         THEN [layers |-> layers, assigned |-> assigned, trapped |-> TRUE]
         ELSE LET next == IF baseId = INT_MAX THEN INT_MIN ELSE baseId + 1
              IN  AssignLoop_postIncrement([layers EXCEPT ![i].layerId = baseId], i + 1, next, assigned + 1, ub)
    ELSE AssignLoop_postIncrement(layers, i + 1, baseId, assigned, ub)

\* the second loop of assignAutoIds over the layers from position i on:
\* the layer list and the count when it ends, or when the overflow trapped
RECURSIVE AssignLoop(_, _, _, _, _)
AssignLoop(layers, i, baseId, assigned, ub) ==
    IF i > Len(layers)
    THEN [layers |-> layers, assigned |-> assigned, trapped |-> FALSE]
    ELSE IF layers[i].layerId = -1
    THEN IF baseId = INT_MAX /\ ub = "trap"
         THEN [layers |-> layers, assigned |-> assigned, trapped |-> TRUE]
         ELSE LET next == IF baseId = INT_MAX THEN INT_MIN ELSE baseId + 1
              IN  AssignLoop([layers EXCEPT ![i].layerId = next], i + 1, next, assigned + 1, ub)
    ELSE AssignLoop(layers, i + 1, baseId, assigned, ub)

\* PythonPSD::assignAutoIds; ub: what the build makes of a signed overflow
assignAutoIds(s, baseId, ub) ==
    IF ~s.isLoaded
    THEN [obj |-> s, ret |-> Throw(NotLoaded)]
    ELSE LET minId == MaxLayerId(s.layerList, -1)
             base == IF baseId < minId THEN minId ELSE baseId
             done == AssignLoop(s.layerList, 1, base, 0, ub)
         IN  [obj |-> [s EXCEPT !.layerList = done.layers],
              ret |-> IF done.trapped THEN Throw(SignedOverflow) ELSE Return(Scalar(done.assigned))]

----------------------------------------------------------------------------
(* The calls a client makes *)

Loads == {"loadFromBytes", "loadFromFile"}

\* the history variable before: what the handle holds
Holding == IF ~psd.isLoaded THEN "empty" ELSE IF edited THEN "edited" ELSE "loaded"

Call(name, args, c) ==
    /\ ret.err # SignedOverflow      \* an aborted process makes no further call
    /\ psd' = c.obj
    /\ op' = name
    /\ arg' = args
    /\ ret' = c.ret
    /\ edited' = IF name \in Loads THEN FALSE ELSE (edited \/ c.obj # psd)
    /\ before' = Holding

LoadFromBytes(bytes) == Call("loadFromBytes", << bytes >>, loadFromBytes(psd, bytes))
LoadFromFile(filepath) == Call("loadFromFile", << filepath >>, loadFromFile(psd, filepath))
GetBasicInfo == Call("getBasicInfo", << >>, getBasicInfo(psd))
GetLayerType(layerNo) == Call("getLayerType", << layerNo >>, getLayerType(psd, layerNo))
GetLayerName(layerNo) == Call("getLayerName", << layerNo >>, getLayerName(psd, layerNo))
GetLayerInfo(layerNo) == Call("getLayerInfo", << layerNo >>, getLayerInfo(psd, layerNo))
GetLayerData(layerNo, mode) == Call("getLayerData", << layerNo, mode >>, getLayerData(psd, layerNo, mode))
GetBlend == Call("getBlend", << >>, getBlend(psd))
GetSlices == Call("getSlices", << >>, getSlices(psd))
GetGuides == Call("getGuides", << >>, getGuides(psd))
GetLayerComp == Call("getLayerComp", << >>, getLayerComp(psd))
AssignAutoIds(baseId, ub) == Call("assignAutoIds", << baseId >>, assignAutoIds(psd, baseId, ub))

Init ==
    /\ psd = NewPSD
    /\ op = "new"
    /\ arg = << >>
    /\ ret = Return(<<>>)
    /\ edited = FALSE
    /\ before = "empty"

Next ==
    \/ \E bytes \in Inputs : LoadFromBytes(bytes)
    \/ \E filepath \in Paths : LoadFromFile(filepath)
    \/ GetBasicInfo
    \/ \E layerNo \in LayerNoSet : GetLayerType(layerNo)
    \/ \E layerNo \in LayerNoSet : GetLayerName(layerNo)
    \/ \E layerNo \in LayerNoSet : GetLayerInfo(layerNo)
    \/ \E layerNo \in LayerNoSet, mode \in ModeSet : GetLayerData(layerNo, mode)
    \/ GetBlend
    \/ GetSlices
    \/ GetGuides
    \/ GetLayerComp
    \/ \E baseId \in BaseIdSet, ub \in Overflows : AssignAutoIds(baseId, ub)

Spec == Init /\ [][Next]_vars

----------------------------------------------------------------------------
(* The same handle with layer ids and baseId arguments over the whole range *)
(* of int                                                                   *)

\* layer ids and baseId arguments up to the ends of the range of int
WideLayerIdSet == {-1, -7, 5, INT_MAX}
WideBaseIdSet == {INT_MIN, -3, 0, INT_MAX - 1, INT_MAX}

WideInputs ==
    { Input(PlainDoc([i \in 1..Len(ids) |-> PlainLayer(ids[i])]), "none") :
        ids \in SeqsUpTo(WideLayerIdSet, MaxLayers) }

NextWide ==
    \/ \E bytes \in WideInputs : LoadFromBytes(bytes)
    \/ \E layerNo \in LayerNoSet : GetLayerInfo(layerNo)
    \/ \E baseId \in WideBaseIdSet, ub \in Overflows : AssignAutoIds(baseId, ub)

SpecWide == Init /\ [][NextWide]_vars

----------------------------------------------------------------------------
(* What the claims speak of *)

\* the input of the last call, when it was a load: the bytes given, or the
\* bytes of the file (<<>> when there is no such file)
LoadInput == IF op = "loadFromBytes" THEN << arg[1] >> ELSE FileAt(arg[1])

\* the last call was a load that had to fail: no such file, or damaged bytes
FailedLoad == op \in Loads /\ (LoadInput = <<>> \/ LoadInput[1].damage # "none")

\* everything a client can observe of a handle: the result of every accessor
\* for every argument
Observable(s) ==
    [ basicInfo |-> getBasicInfo(s).ret,
      layerInfo |-> [n \in LayerNoSet |-> getLayerInfo(s, n).ret],
      layerName |-> [n \in LayerNoSet |-> getLayerName(s, n).ret],
      layerType |-> [n \in LayerNoSet |-> getLayerType(s, n).ret],
      layerData |-> [x \in LayerNoSet \X ModeSet |-> getLayerData(s, x[1], x[2]).ret],
      blend     |-> getBlend(s).ret,
      slices    |-> getSlices(s).ret,
      guides    |-> getGuides(s).ret,
      layerComp |-> getLayerComp(s).ret ]

\* a handle with nothing loaded, as a client sees it: getBasicInfo gives the
\* empty dict and every other accessor the not-loaded error
LooksEmpty(s) ==
    /\ getBasicInfo(s).ret = Return(<<>>)
    /\ \A n \in LayerNoSet :
          /\ getLayerInfo(s, n).ret = Throw(InvalidLayer)
          /\ \A m \in ModeSet : getLayerData(s, n, m).ret = Throw(InvalidLayer)
    /\ getBlend(s).ret = Throw(NotLoaded)
    /\ getSlices(s).ret = Throw(NotLoaded)
    /\ getGuides(s).ret = Throw(NotLoaded)
    /\ getLayerComp(s).ret = Throw(NotLoaded)
    /\ \A b \in BaseIdSet, ub \in Overflows :
          /\ assignAutoIds(s, b, ub).ret = Throw(NotLoaded)
          /\ assignAutoIds(s, b, ub).obj = s

----------------------------------------------------------------------------
(* C1: loading is all-or-nothing.  After a load that fails (a wrong magic   *)
(* signature, a truncated layer section, trailing bytes, unbalanced         *)
(* folders, a missing file) the load has returned false, no document is     *)
(* loaded, and nothing of the partly decoded input can be observed:         *)
(* getBasicInfo gives the empty dict and every other accessor the           *)
(* not-loaded error.                                                        *)
C1_AllOrNothing ==
    FailedLoad => /\ ret = Return(Scalar(FALSE))
                  /\ ~psd.isLoaded
                  /\ LooksEmpty(psd)

\* a load of bytes with a wrong magic signature, into a handle that held a document
C1_Witness ==
    /\ op = "loadFromBytes"
    /\ arg[1].damage = "signature"
    /\ before = "loaded"
    /\ ret = Return(Scalar(FALSE))

(* C2, as claimed: a load that fails leaves the document loaded before it   *)
(* untouched: the handle is still loaded and every accessor answers as it   *)
(* did before the load.                                                     *)
C2_PreviousDocumentKept ==
    [][ (psd.isLoaded /\ FailedLoad') => (psd'.isLoaded /\ Observable(psd') = Observable(psd)) ]_vars

(* C2, amended: a load that fails discards the document loaded before it:   *)
(* the handle is left as a new handle is, with no document, no layer, no    *)
(* resource and no retained bytes.                                          *)
C2_PreviousDocumentDiscarded ==
    (FailedLoad /\ before # "empty") => psd = NewPSD

\* a load of truncated bytes into a handle that held a document
C2_Witness ==
    /\ op = "loadFromBytes"
    /\ arg[1].damage = "truncated"
    /\ arg[1].doc.layers # <<>>
    /\ before = "edited"
    /\ psd = NewPSD

(* C3: the per-layer accessors getLayerData, getLayerInfo, getLayerName and *)
(* getLayerType fail, returning nothing, for a layer index that is negative *)
(* or not below the layer count, and for every index when no document is    *)
(* loaded; getBlend fails when no document is loaded.                       *)
C3_InvalidIndexFails ==
    /\ (/\ op \in {"getLayerData", "getLayerInfo", "getLayerName", "getLayerType"}
        /\ (~psd.isLoaded \/ arg[1] < 0 \/ arg[1] >= Len(psd.layerList)))
       => (ret.err # "" /\ ret.val = <<>>)
    /\ (op = "getBlend" /\ ~psd.isLoaded) => (ret.err # "" /\ ret.val = <<>>)

\* getLayerData with the index equal to the layer count of a loaded document
C3_Witness ==
    /\ op = "getLayerData"
    /\ psd.isLoaded
    /\ Len(psd.layerList) > 0
    /\ arg[1] = Len(psd.layerList)
    /\ ret = Throw(InvalidLayer)

----------------------------------------------------------------------------
\* the layer ids of a handle, in list order
Ids(s) == [i \in 1..Len(s.layerList) |-> s.layerList[i].layerId]

\* the largest of a non-empty set of numbers
MaxOf(S) == CHOOSE m \in S : \A x \in S : x <= m

\* the ids after assignAutoIds(baseId), as C5 states them: a layer without an
\* id gets max(baseId, largest id) + its rank among the layers without one
IdsWanted(ids, baseId) ==
    [i \in 1..Len(ids) |->
        IF ids[i] # -1
        THEN ids[i]
        ELSE MaxOf({baseId} \cup {ids[j] : j \in 1..Len(ids)})
             + Cardinality({j \in 1..i : ids[j] = -1})]

(* C5: assignAutoIds(baseId) on a loaded document gives the layers whose id *)
(* is -1, in list order, consecutive ids from max(baseId, largest id) + 1,  *)
(* leaves the other ids as they are and returns the number of ids it gave.  *)
C5_AssignAutoIds ==
    [][ (op' = "assignAutoIds" /\ psd.isLoaded) =>
            /\ Ids(psd') = IdsWanted(Ids(psd), arg'[1])
            /\ ret' = Return(Scalar(Cardinality({i \in 1..Len(psd.layerList) : Ids(psd)[i] = -1}))) ]_vars

\* ids [-1, 5, -1] with baseId 0 have become [6, 5, 7], and the call returned 2
C5_Witness ==
    /\ op = "assignAutoIds"
    /\ arg = << 0 >>
    /\ before = "loaded"
    /\ Ids(psd) = << 6, 5, 7 >>
    /\ ret = Return(Scalar(2))

(* C6, as claimed: once a document is loaded, no public operation other     *)
(* than a new load changes any field of it, layer ids included.             *)
C6_NeverMutated ==
    [][ (psd.isLoaded /\ op' \notin Loads) => psd' = psd ]_vars

\* t is s but for the ids of layers that had none in s
SameButNewIds(s, t) ==
    /\ Len(t.layerList) = Len(s.layerList)
    /\ \A i \in 1..Len(s.layerList) :
          /\ s.layerList[i].layerId # -1 => t.layerList[i].layerId = s.layerList[i].layerId
          /\ [t.layerList[i] EXCEPT !.layerId = s.layerList[i].layerId] = s.layerList[i]
    /\ [t EXCEPT !.layerList = s.layerList] = s

(* C6, amended: once a document is loaded, the accessors (getBasicInfo,     *)
(* getLayerInfo, getLayerName, getLayerType, getLayerData, getBlend,        *)
(* getSlices, getGuides, getLayerComp) change no field of it, and           *)
(* assignAutoIds changes nothing but the ids of the layers whose id is -1.  *)
C6_OnlyIdsMutated ==
    [][ (psd.isLoaded /\ op' \notin Loads) =>
            IF op' = "assignAutoIds" THEN SameButNewIds(psd, psd') ELSE psd' = psd ]_vars

\* assignAutoIds has given an id to every layer of a loaded document of MaxLayers layers
C6_Witness ==
    /\ op = "assignAutoIds"
    /\ psd.isLoaded
    /\ edited
    /\ before = "loaded"
    /\ ret.val.value = Len(psd.layerList)
    /\ Len(psd.layerList) = MaxLayers

\* what a new handle holds after the load the last call made
FreshLoad ==
    IF op = "loadFromBytes" THEN loadFromBytes(NewPSD, arg[1]).obj ELSE loadFromFile(NewPSD, arg[1]).obj

(* C7: a load resets the handle.  After a successful load everything a      *)
(* client can observe (the header summary, the layers and their ids, the    *)
(* slices, the guides, the layer comps, the composite image) is what the    *)
(* same load gives on a new handle, whatever was loaded and whatever ids    *)
(* assignAutoIds gave before.                                               *)
C7_LoadResets ==
    (op \in Loads /\ ret = Return(Scalar(TRUE))) =>
        /\ Observable(psd) = Observable(FreshLoad)
        /\ psd = FreshLoad

\* a document with a layer without id, loaded over a document whose ids assignAutoIds had changed
C7_Witness ==
    /\ op \in Loads
    /\ ret = Return(Scalar(TRUE))
    /\ before = "edited"
    /\ \E i \in 1..Len(psd.layerList) : psd.layerList[i].layerId = -1
    /\ ~psd.slice.isEnabled

(* C8: getLayerData(i, "mask") for a valid layer i whose mask has no area   *)
(* (no mask sub-record, or a width or height of zero or less) returns the   *)
(* 1 x 1 array (defaultColor, defaultColor, defaultColor, 255) and is no    *)
(* error, whatever the size of the layer itself.                            *)
C8_MaskPlaceholder ==
    (/\ op = "getLayerData"
     /\ arg[2] = "mask"
     /\ psd.isLoaded
     /\ arg[1] >= 0
     /\ arg[1] < Len(psd.layerList)
     /\ (\/ psd.layerList[arg[1] + 1].layerMask.width <= 0
         \/ psd.layerList[arg[1] + 1].layerMask.height <= 0))
    => LET dc == psd.layerList[arg[1] + 1].layerMask.defaultColor
       IN  ret = Return([shape |-> <<1, 1, 4>>, data |-> <<dc, dc, dc, 255>>])

\* the placeholder of a layer without area and without mask, default color 255
C8_Witness ==
    /\ op = "getLayerData"
    /\ arg = << 0, "mask" >>
    /\ psd.isLoaded
    /\ Len(psd.layerList) = 1
    /\ psd.layerList[1].width = 0
    /\ psd.layerList[1].layerMask.width = 0
    /\ psd.layerList[1].layerMask.defaultColor = 255
    /\ ret = Return([shape |-> <<1, 1, 4>>, data |-> <<255, 255, 255, 255>>])

BlendModeName(mode) ==
    CASE mode = "NORMAL"        -> "normal"
      [] mode = "DARKEN"        -> "darken"
      [] mode = "MULTIPLY"      -> "multiply"
      [] mode = "COLOR_BURN"    -> "color_burn"
      [] mode = "LINEAR_BURN"   -> "linear_burn"
      [] mode = "LIGHTEN"       -> "lighten"
      [] mode = "SCREEN"        -> "screen"
      [] mode = "COLOR_DODGE"   -> "color_dodge"
      [] mode = "LINEAR_DODGE"  -> "linear_dodge"
      [] mode = "OVERLAY"       -> "overlay"
      [] mode = "SOFT_LIGHT"    -> "soft_light"
      [] mode = "HARD_LIGHT"    -> "hard_light"
      [] mode = "VIVID_LIGHT"   -> "vivid_light"
      [] mode = "LINEAR_LIGHT"  -> "linear_light"
      [] mode = "PIN_LIGHT"     -> "pin_light"
      [] mode = "HARD_MIX"      -> "hard_mix"
      [] mode = "DIFFERENCE"    -> "difference"
      [] mode = "EXCLUSION"     -> "exclusion"
      [] mode = "DISSOLVE"      -> "dissolve"
      [] mode = "DARKER_COLOR"  -> "darker_color"
      [] mode = "LIGHTER_COLOR" -> "lighter_color"
      [] mode = "SUBTRACT"      -> "subtract"
      [] mode = "DIVIDE"        -> "divide"

(* C10: getLayerInfo reports the layer's blend mode as its symbolic name    *)
(* ("type") and as its numeric code ("blend_mode"); for each of the 23      *)
(* blend modes the name is that mode's name (so that layers of different    *)
(* modes get different names).                                              *)
C10_BlendModeName ==
    (op = "getLayerInfo" /\ ret.err = "") =>
        LET mode == psd.layerList[arg[1] + 1].blendMode
        IN  /\ ret.val.blend_mode = BlendModeCode(mode)
            /\ ret.val.type = BlendModeName(mode)

----------------------------------------------------------------------------
\* the places of the guides of one kind in the decoded guide list
GuidePlaces(guides, vertical) == {i \in 1..Len(guides) : (guides[i].direction = 0) = vertical}

\* list holds the locations of the guides of one kind, each once, in the
\* decoded order: the guide at the k-th of these places is the k-th of list
HoldsGuides(list, guides, vertical) ==
    /\ Len(list) = Cardinality(GuidePlaces(guides, vertical))
    /\ \A i \in GuidePlaces(guides, vertical) :
          list[Cardinality({j \in GuidePlaces(guides, vertical) : j <= i})] = guides[i].location

(* C11: with the guides enabled, getGuides splits the decoded guide list in *)
(* two: the location of a guide of direction 0 is in "vertical", that of    *)
(* a guide of any other direction in "horizontal", each in one list only,   *)
(* in the decoded order, and the two lengths add up to the number of        *)
(* guides.  With the guides resource absent or not enabled it returns None. *)
C11_GuidesPartition ==
    (op = "getGuides" /\ psd.isLoaded) =>
        IF ~psd.gridGuide.isEnabled
        THEN ret = Return(None)
        ELSE LET guides == psd.gridGuide.guides
             IN  /\ ret.err = ""
                 /\ HoldsGuides(ret.val.vertical, guides, TRUE)
                 /\ HoldsGuides(ret.val.horizontal, guides, FALSE)
                 /\ Len(ret.val.vertical) + Len(ret.val.horizontal) = Len(guides)
                 /\ \A i \in 1..Len(guides) :
                       LET inVertical == \E k \in 1..Len(ret.val.vertical) :
                                            ret.val.vertical[k] = guides[i].location
                           inHorizontal == \E k \in 1..Len(ret.val.horizontal) :
                                              ret.val.horizontal[k] = guides[i].location
                       IN  inVertical = (guides[i].direction = 0) /\ inHorizontal = ~inVertical

\* a guide of direction 2 followed by a guide of direction 0
C11_Witness ==
    /\ op = "getGuides"
    /\ psd.isLoaded
    /\ psd.gridGuide.isEnabled
    /\ Len(psd.gridGuide.guides) = 2
    /\ psd.gridGuide.guides[1].direction = 2
    /\ psd.gridGuide.guides[2].direction = 0
    /\ ret.val.vertical = << 20 >>
    /\ ret.val.horizontal = << 10 >>

(* C12: loadFromBytes returns true only when the parser accepts the input,  *)
(* has consumed every byte of it and the post-processing succeeds, and      *)
(* false otherwise.  What it returns is the loaded state of the handle, and *)
(* when that is false the retained copy of the bytes has been cleared.      *)
C12_LoadFromBytesResult ==
    op = "loadFromBytes" =>
        LET bytes == arg[1]
            p == parse(NewPSD, bytes)
        IN  /\ ret.err = ""
            /\ ret.val.value = (p.r /\ p.atEnd /\ processParsed(p.obj, bytes).ok)
            /\ ret.val.value = psd.isLoaded
            /\ ~ret.val.value => psd.fileData = <<>>

\* bytes with a well-formed document and something after it, given to a loaded handle
C12_Witness ==
    /\ op = "loadFromBytes"
    /\ arg[1].damage = "trailing"
    /\ arg[1].doc.layers # <<>>
    /\ before = "loaded"
    /\ ret = Return(Scalar(FALSE))
    /\ ~psd.isLoaded
    /\ psd.fileData = <<>>

----------------------------------------------------------------------------
(* C13: after assignAutoIds has run on a loaded document, for any baseId,   *)
(* negative ones included, the call has returned, no layer has id -1, the   *)
(* ids it gave are not negative, differ from each other and are greater     *)
(* than every id a layer had before the call, and the same call made again  *)
(* returns 0 and changes no id.                                             *)
C13_AllIdsAssigned ==
    [][ (op' = "assignAutoIds" /\ psd.isLoaded) =>
            LET old == Ids(psd)
                new == Ids(psd')
                given == {i \in 1..Len(old) : old[i] = -1}
            IN  /\ ret'.err = ""
                /\ \A i \in 1..Len(new) : new[i] # -1
                /\ \A i \in given :
                      /\ new[i] >= 0
                      /\ \A k \in given \ {i} : new[k] # new[i]
                      /\ \A j \in 1..Len(old) : new[i] > old[j]
                /\ \A ub \in Overflows :
                      /\ assignAutoIds(psd', arg'[1], ub).ret = Return(Scalar(0))
                      /\ assignAutoIds(psd', arg'[1], ub).obj = psd' ]_vars
====
